---- MODULE Spec2Model ----
(***************************************************************************)
(* Quiz Battle: the match orchestration engine.                            *)
(*                                                                         *)
(*   GameManager   packages/game-engine/src/game-manager.ts                *)
(*   socket layer  apps/api/src/socket/handlers.ts                         *)
(*   repositories  packages/database (DatabaseGameRepository, ...)         *)
(*   scoring       packages/shared/src/utils.ts                            *)
(*                                                                         *)
(* The server is one Node.js event loop.  A handler runs without           *)
(* interruption up to its next `await`; the rest of it is a continuation   *)
(* (a record in `calls`) that resumes in a later step.  A repository call  *)
(* takes effect on the tables when it is issued.  Timers (setTimeout,      *)
(* setInterval) are records in `timers`; a one-shot timer fires once the   *)
(* clock has reached its due time and the clock does not pass a due        *)
(* one-shot timer.                                                         *)
(***************************************************************************)
EXTENDS Integers, Sequences, FiniteSets, Bags, TLC

VARIABLES
    now,        \* Date.now(), in ms
    games,      \* table games: game id -> row
    answerRows, \* table answers: the number of rows of the match
    heap,       \* the GameSession objects ever created (referenced by index)
    sessions,   \* GameManager.sessions: game id -> index into heap
    timers,     \* bag of pending timer handles
    calls,      \* bag of suspended async continuations
    out,        \* the events the last step emitted through socketEmitter, in order
    live,       \* history: a question was started and has not been ended since
    endedBy,    \* history: what triggered the last effective endQuestion
    acceptedNow,\* history: per participant, submissions accepted for the current index
    rooms,      \* handlers.ts gameRooms: game id -> the sockets (participants) in the room
    joins,      \* the number of join requests received so far
    found,      \* history: per participant, the waiting match its last join request found
    stored,     \* history: per game id, every id ever stored as its participant 1 or 2
    completions,\* history: how often a match was persisted as completed, and game-completed emitted
    pin,        \* pure-function harness: the latency handed to calculatePoints
    pout,       \* pure-function harness: its result
    themeQuestions, \* table questions: the number of questions of the match's theme
    horizon,    \* the time at which the clock of the specification stops
    agg,        \* a Game aggregate (domain/aggregates.ts)
    aggRet,     \* the method last called on it and how it ended
    rateLimits, \* SocketRateLimiter.rateLimits: socket id -> event -> timestamps
    verdicts,   \* history: the last isAllowed call, and per socket and event the times of the calls that returned true
    uow         \* a DatabaseUnitOfWork with its transaction, event store and publisher

vars == <<now, games, answerRows, heap, sessions, timers, calls, out,
          live, endedBy, acceptedNow, rooms, joins, found, stored, completions,
          pin, pout, themeQuestions, horizon, agg, aggRet, rateLimits, verdicts, uow>>

----------------------------------------------------------------------------
(* Program constants *)

QUESTIONS_PER_GAME == 5
QUESTION_TIME_LIMIT_SECONDS == 10
QUESTION_TIME_LIMIT == 10000
MAX_POINTS_PER_QUESTION == 1000
\* TIME_BONUS_MULTIPLIER = 0.8, as the fraction 8/10
TIME_BONUS_NUM == 8
TIME_BONUS_DEN == 10
TICK_INTERVAL_MS == 100
NEXT_QUESTION_DELAY_MS == 2000
START_DELAY_MS == 1000
MIN_ANSWER_INDEX == 0
MAX_ANSWER_INDEX == 3
\* `responseTime < 100 || responseTime > 15000` of the player-submit-answer handler
MIN_CLIENT_RESPONSE_TIME == 100
MAX_CLIENT_RESPONSE_TIME == 15000

(* Bounds of the model *)

TimeStep == 5000    \* the clock moves to the next timer or by this much
MaxTime == 13000    \* the clock stops here while participants submit
MaxIdleTime == 71000 \* the clock stops here when nobody submits
MaxTimers == 4      \* pending timer handles
MaxCalls == 2       \* suspended continuations
MaxJoins == 3       \* join requests
LatencyStep == 500  \* the latencies handed to calculatePoints are multiples of this
MaxLatencySteps == 24
MaxGameIndex == 6   \* completeQuestion is called while the aggregate's index is below this
MaxGameScore == 2400 \* Game.submitAnswer is called while the two scores sum to less
MaxRequests == 2    \* maxRequests of the rate limiter instance
WindowMs == 3000    \* windowMs of the rate limiter instance
LimiterStep == 1000 \* the clock of the rate limiter moves by this much
MaxLimiterTime == 4000 \* and stops here
MaxLimiterCalls == 5 \* isAllowed calls
MaxUowEvents == 3   \* events ever collected by the unit of work

----------------------------------------------------------------------------
(* Values *)

GameId == "g1"
Submitters == {"p1", "p2"}
AnswerInputs == {1, 7}
\* responseTime as a client reports it: too small, the smallest and the largest accepted
ClientResponseTimes == {50, MIN_CLIENT_RESPONSE_TIME, MAX_CLIENT_RESPONSE_TIME}
Joiners == {"p1", "p2", "p3"}
NewGameIds == <<"g1", "g2", "g3", "g4", "g5">>
NULL == "null"

\* the theme every match of the other specifications is played on
Science == "science"
\* the rows of table themes: is_active by id
ThemeRows == [science |-> TRUE, retired |-> FALSE]

\* correct_answer of the five science questions of the seed data
CorrectAnswers == <<1, 0, 2, 3, 1>>

NoTimer == [kind |-> "none", due |-> 0, sess |-> 0, gid |-> GameId]
Timer(kind, due, sess) == [NoTimer EXCEPT !.kind = kind, !.due = due, !.sess = sess]
\* no match has been completed yet
NoCompletions == [persisted |-> 0, emitted |-> 0]
NoAnswer == [answer |-> -1, responseTime |-> -1]

Put(f, k, v) == [x \in DOMAIN f \cup {k} |-> IF x = k THEN v ELSE f[x]]
Remove(f, k) == [x \in DOMAIN f \ {k} |-> f[x]]
Max(a, b) == IF a >= b THEN a ELSE b

\* Math.round of n/d for n >= 0, d > 0
Round(n, d) == (2 * n + d) \div (2 * d)

Ev(type, who, q, t, s1, s2) ==
    [type |-> type, who |-> who, q |-> q, t |-> t, s1 |-> s1, s2 |-> s2, gid |-> GameId]

----------------------------------------------------------------------------
(* packages/shared/src/utils.ts *)

\* the boundary test with > in place of >=: an answer at the limit is scored
calculatePointsAtLimit(responseTimeMs) ==
    IF responseTimeMs > QUESTION_TIME_LIMIT THEN 0
    ELSE LET remainingTimeMs == QUESTION_TIME_LIMIT - responseTimeMs
             timeBonus == Round(remainingTimeMs * TIME_BONUS_NUM, TIME_BONUS_DEN)
             basePoints == MAX_POINTS_PER_QUESTION - timeBonus
         IN  Max(basePoints + timeBonus, 0)

calculatePoints(responseTimeMs) ==
    IF responseTimeMs >= QUESTION_TIME_LIMIT THEN 0
    ELSE LET remainingTimeMs == QUESTION_TIME_LIMIT - responseTimeMs
             timeBonus == Round(remainingTimeMs * TIME_BONUS_NUM, TIME_BONUS_DEN)
             basePoints == MAX_POINTS_PER_QUESTION - timeBonus
         IN  Max(basePoints + timeBonus, 0)

\* the range test without its upper end
isValidAnswerIndexNoUpper(index) ==
    index >= MIN_ANSWER_INDEX

isValidAnswerIndex(index) ==
    index >= MIN_ANSWER_INDEX /\ index <= MAX_ANSWER_INDEX

----------------------------------------------------------------------------
(* packages/shared/src/domain: the Game aggregate, Question, ResponseTime.  *)
(* A method maps the aggregate to [g: the aggregate after the call, result: *)
(* "ok" or the error it throws].                                            *)

\* the number of questions Game.start and Game.canComplete require
GAME_QUESTIONS == 5

\* Game.create(player1Id = p1, themeId)
Game_create ==
    [status |-> "waiting", player1Id |-> "p1", player2Id |-> NULL, winnerId |-> NULL,
     player1Score |-> 0, player2Score |-> 0, currentQuestionIndex |-> 0,
     completedAt |-> FALSE, playersAnswered |-> {}]

NotCalled == [op |-> "none", result |-> "none"]
Ok(g) == [g |-> g, result |-> "ok"]
Throw(g, error) == [g |-> g, result |-> error]

\* ResponseTime.isWithinLimit
isWithinLimit(milliseconds, limitMs) == milliseconds <= limitMs

\* Question.calculatePoints
Question_calculatePoints(milliseconds, difficulty) ==
    IF ~isWithinLimit(milliseconds, QUESTION_TIME_LIMIT) THEN 0
    ELSE LET remainingTimeMs == QUESTION_TIME_LIMIT - milliseconds
             timeBonus == Round(remainingTimeMs * TIME_BONUS_NUM, TIME_BONUS_DEN)
             basePoints == MAX_POINTS_PER_QUESTION - timeBonus
             points == Max(basePoints + timeBonus, 0)
         IN  CASE difficulty = "hard" -> Round(points * 15, 10)
               [] difficulty = "medium" -> Round(points * 12, 10)
               [] OTHER -> points

\* ScoringService.calculateQuestionPoints (domain/services.ts)
calculateQuestionPoints(responseTimeMs, difficulty) ==
    IF responseTimeMs >= QUESTION_TIME_LIMIT THEN 0
    ELSE LET remainingTimeMs == QUESTION_TIME_LIMIT - responseTimeMs
             timeBonus == Round(remainingTimeMs * TIME_BONUS_NUM, TIME_BONUS_DEN)
             basePoints == MAX_POINTS_PER_QUESTION - timeBonus
             points == Max(basePoints + timeBonus, 0)
         IN  CASE difficulty = "hard" -> Round(points * 15, 10)
               [] difficulty = "medium" -> Round(points * 12, 10)
               [] OTHER -> points

addPlayer2(g, playerId) ==
    LET canPlayerJoin ==
            g.status = "waiting" /\ g.player2Id = NULL /\ g.player1Id # playerId
    IN  IF ~canPlayerJoin THEN Throw(g, "GameFullError")
        ELSE Ok([g EXCEPT !.player2Id = playerId])

start(g, questions) ==
    LET canStart == g.status = "waiting" /\ g.player2Id # NULL
    IN  IF ~canStart THEN Throw(g, "GameAlreadyStartedError")
        ELSE IF questions < GAME_QUESTIONS THEN Throw(g, "Error")
        ELSE Ok([g EXCEPT !.status = "active"])

Game_startQuestion(g) ==
    IF g.status # "active" THEN Throw(g, "GameNotStartedError")
    ELSE Ok([g EXCEPT !.playersAnswered = {}])

canPlayerAnswer(g, playerId) ==
    LET isPlayerInGame == g.player1Id = playerId \/ g.player2Id = playerId
    IN  /\ g.status = "active"
        /\ isPlayerInGame
        /\ playerId \notin g.playersAnswered

addPointsToPlayer(g, playerId, points) ==
    IF g.player1Id = playerId THEN [g EXCEPT !.player1Score = @ + points]
    ELSE IF g.player2Id = playerId THEN [g EXCEPT !.player2Score = @ + points]
    ELSE g

\* Game.submitAnswer, for the question at index question of the seed data
Game_submitAnswer(g, playerId, question, answerIndex, responseTime) ==
    \* difficulty of the five science questions of the seed data
    LET Difficulties == <<"easy", "medium", "easy", "medium", "easy">>
    IN
        IF ~canPlayerAnswer(g, playerId)
        THEN IF playerId \in g.playersAnswered
             THEN Throw(g, "PlayerAlreadyAnsweredError")
             ELSE Throw(g, "PlayerNotInGameError")
        ELSE LET isCorrect == answerIndex = CorrectAnswers[question + 1]
                 points == IF isCorrect
                           THEN Question_calculatePoints(responseTime, Difficulties[question + 1])
                           ELSE 0
                 g1 == IF isCorrect THEN addPointsToPlayer(g, playerId, points) ELSE g
             IN  Ok([g1 EXCEPT !.playersAnswered = @ \cup {playerId}])

completeQuestion(g) ==
    IF g.status # "active" THEN Throw(g, "GameNotStartedError")
    ELSE Ok([g EXCEPT !.currentQuestionIndex = @ + 1])

determineWinner(g) ==
    IF g.player2Id = NULL THEN g.player1Id
    ELSE IF g.player1Score > g.player2Score THEN g.player1Id
    ELSE IF g.player2Score > g.player1Score THEN g.player2Id
    ELSE NULL

complete(g) ==
    LET canComplete == g.status = "active" /\ g.currentQuestionIndex >= GAME_QUESTIONS
    IN  IF ~canComplete THEN Throw(g, "InvalidGameStateTransitionError")
        ELSE Ok([g EXCEPT !.status = "completed", !.completedAt = TRUE,
                          !.winnerId = determineWinner(g)])

\* cancel without the test for a completed game
cancelAnyStatus(g) ==
    Ok([g EXCEPT !.status = "cancelled", !.completedAt = TRUE])

cancel(g) ==
    IF g.status = "completed" THEN Throw(g, "GameAlreadyCompletedError")
    ELSE Ok([g EXCEPT !.status = "cancelled", !.completedAt = TRUE])

----------------------------------------------------------------------------
(* The state a handler works on, as one record, so that the calls one      *)
(* handler makes compose.  Its field ret is what the call returns to its   *)
(* caller ("none": it has not returned); it is not part of the state.      *)

St == [games |-> games, answerRows |-> answerRows, heap |-> heap,
       sessions |-> sessions, timers |-> timers, calls |-> calls,
       out |-> <<>>, ret |-> "none",
       live |-> live, endedBy |-> endedBy, acceptedNow |-> acceptedNow,
       rooms |-> rooms, joins |-> joins, found |-> found, stored |-> stored,
       completions |-> completions]

Commit(st) ==
    /\ BagCardinality(st.timers) <= MaxTimers
    /\ BagCardinality(st.calls) <= MaxCalls
    /\ games' = st.games
    /\ answerRows' = st.answerRows
    /\ heap' = st.heap
    /\ sessions' = st.sessions
    /\ timers' = st.timers
    /\ calls' = st.calls
    /\ out' = st.out
    /\ live' = st.live
    /\ endedBy' = st.endedBy
    /\ acceptedNow' = st.acceptedNow
    /\ rooms' = st.rooms
    /\ joins' = st.joins
    /\ found' = st.found
    /\ stored' = st.stored
    /\ completions' = st.completions

socketEmitter(st, ev) == [st EXCEPT !.out = Append(@, ev)]

AddTimer(st, t) == [st EXCEPT !.timers = @ (+) SetToBag({t})]
\* clearTimeout / clearInterval: no effect on a handle that is not pending
ClearTimer(st, t) == [st EXCEPT !.timers = @ (-) SetToBag({t})]
AddCall(st, c) == [st EXCEPT !.calls = @ (+) SetToBag({c})]
DropCall(st, c) == [st EXCEPT !.calls = @ (-) SetToBag({c})]

NoRow ==
    [status |-> "none", player1Id |-> NULL, player2Id |-> NULL, winnerId |-> NULL,
     player1Score |-> 0, player2Score |-> 0, currentQuestionIndex |-> 0,
     completed |-> FALSE, createdAt |-> 0, themeId |-> NULL]

\* A suspended async function: which one, the await it waits at, and its locals
\* (sess: the session object it holds; who: playerId, or winnerId in endGame;
\* row: the game row startGame read; themeId: the theme of a join request).
Call(kind, stage, sess, who) ==
    [kind |-> kind, stage |-> stage, sess |-> sess, who |-> who,
     selectedAnswer |-> -1, responseTime |-> -1, isCorrect |-> FALSE, points |-> 0,
     gid |-> GameId, row |-> NoRow, themeId |-> Science]

\* DatabaseGameRepository.updateGame: UPDATE games SET <the fields of updates>
\* WHERE id = gameId; no row, no effect
updateGame(st, id, updates) ==
    IF id \in DOMAIN st.games
    THEN [st EXCEPT !.games[id] =
             [k \in DOMAIN @ |-> IF k \in DOMAIN updates THEN updates[k] ELSE @[k]]]
    ELSE st

----------------------------------------------------------------------------
(* GameManager *)

NewSession(game) ==
    [game |-> [game EXCEPT !.status = "active"],
     currentQuestionStartTime |-> now,
     questionTimer |-> NoTimer,
     countdownInterval |-> NoTimer,
     playersAnswered |-> {},
     answers |-> [p \in Submitters |-> NoAnswer]]

\* startQuestion that records the deadline timer without arming it
startQuestionNoDeadline(st, questionIndex) ==
    IF GameId \notin DOMAIN st.sessions \/ questionIndex >= Len(CorrectAnswers)
    THEN st
    ELSE LET sid == st.sessions[GameId]
             interval == Timer("interval", now + TICK_INTERVAL_MS, sid)
             deadline == Timer("deadline", now + QUESTION_TIME_LIMIT_SECONDS * 1000, sid)
             s1 == [st EXCEPT
                      !.heap[sid].currentQuestionStartTime = now,
                      !.heap[sid].playersAnswered = {},
                      !.heap[sid].answers = [p \in Submitters |-> NoAnswer],
                      !.heap[sid].countdownInterval = interval,
                      !.heap[sid].questionTimer = deadline,
                      !.live = TRUE,
                      !.endedBy = "none"]
             s2 == socketEmitter(s1, Ev("question-started", NULL, questionIndex,
                                        QUESTION_TIME_LIMIT_SECONDS * 1000, 0, 0))
         IN  AddTimer(s2, interval)

startQuestion(st, questionIndex) ==
    IF GameId \notin DOMAIN st.sessions \/ questionIndex >= Len(CorrectAnswers)
    THEN st
    ELSE LET sid == st.sessions[GameId]
             interval == Timer("interval", now + TICK_INTERVAL_MS, sid)
             deadline == Timer("deadline", now + QUESTION_TIME_LIMIT_SECONDS * 1000, sid)
             s1 == [st EXCEPT
                      !.heap[sid].currentQuestionStartTime = now,
                      !.heap[sid].playersAnswered = {},
                      !.heap[sid].answers = [p \in Submitters |-> NoAnswer],
                      !.heap[sid].countdownInterval = interval,
                      !.heap[sid].questionTimer = deadline,
                      !.live = TRUE,
                      !.endedBy = "none"]
             s2 == socketEmitter(s1, Ev("question-started", NULL, questionIndex,
                                        QUESTION_TIME_LIMIT_SECONDS * 1000, 0, 0))
         IN  AddTimer(AddTimer(s2, interval), deadline)

WinnerOf(game) ==
    IF game.player1Score > game.player2Score THEN game.player1Id
    ELSE IF game.player2Score > game.player1Score THEN game.player2Id
    ELSE NULL

\* endGame up to `await this.gameRepository.updateGame(...)`
endGame(st) ==
    IF GameId \notin DOMAIN st.sessions THEN st
    ELSE LET sid == st.sessions[GameId]
             g == st.heap[sid].game
             winnerId == WinnerOf(g)
             scores == [status |-> "completed",
                        player1Score |-> g.player1Score,
                        player2Score |-> g.player2Score,
                        completed |-> TRUE]
             \* `winnerId: winnerId || undefined`: no winner, no such field
             updates == IF winnerId = NULL THEN scores
                        ELSE [k \in DOMAIN scores \cup {"winnerId"} |->
                                 IF k = "winnerId" THEN winnerId ELSE scores[k]]
             s1 == IF GameId \in DOMAIN st.games
                   THEN [st EXCEPT !.completions.persisted = @ + 1] ELSE st
         IN  AddCall(updateGame(s1, GameId, updates),
                     Call("endGame", "updateGame", sid, winnerId))

\* an off-by-one in the test below: the match completes one question early
AllQuestionsDoneEarly(idx) == idx >= QUESTIONS_PER_GAME - 1

\* `session.game.currentQuestionIndex >= GAME_CONFIG.QUESTIONS_PER_GAME`
AllQuestionsDone(idx) == idx >= QUESTIONS_PER_GAME

\* endQuestion that goes on without a current question, its correctAnswer undefined
endQuestionPastLast(st, by) ==
    IF GameId \notin DOMAIN st.sessions THEN st
    ELSE LET sid == st.sessions[GameId]
             s == st.heap[sid]
             s1 == [ClearTimer(ClearTimer(st, s.questionTimer), s.countdownInterval)
                      EXCEPT !.heap[sid].questionTimer = NoTimer,
                             !.heap[sid].countdownInterval = NoTimer]
             idx == s.game.currentQuestionIndex
             correctAnswer == IF idx < Len(CorrectAnswers) THEN CorrectAnswers[idx + 1] ELSE -1
             s2 == socketEmitter(s1, Ev("question-timeout", NULL, correctAnswer,
                                        0, s.game.player1Score, s.game.player2Score))
             s3 == [s2 EXCEPT !.heap[sid].game.currentQuestionIndex = idx + 1,
                              !.live = FALSE,
                              !.endedBy = by,
                              !.acceptedNow = [p \in Submitters |-> 0]]
         IN  IF AllQuestionsDone(idx + 1)
             THEN endGame(s3)
             ELSE AddTimer(s3, Timer("next", now + NEXT_QUESTION_DELAY_MS, sid))

\* endQuestion: synchronous up to `await this.endGame(gameId)`
endQuestion(st, by) ==
    IF GameId \notin DOMAIN st.sessions THEN st
    ELSE LET sid == st.sessions[GameId]
             s == st.heap[sid]
             s1 == [ClearTimer(ClearTimer(st, s.questionTimer), s.countdownInterval)
                      EXCEPT !.heap[sid].questionTimer = NoTimer,
                             !.heap[sid].countdownInterval = NoTimer]
             idx == s.game.currentQuestionIndex
         IN  IF idx >= Len(CorrectAnswers)
             THEN \* currentQuestion is undefined: reading .correctAnswer throws
                  s1
             ELSE LET s2 == socketEmitter(s1, Ev("question-timeout", NULL, CorrectAnswers[idx + 1],
                                                 0, s.game.player1Score, s.game.player2Score))
                      s3 == [s2 EXCEPT !.heap[sid].game.currentQuestionIndex = idx + 1,
                                       !.live = FALSE,
                                       !.endedBy = by,
                                       !.acceptedNow = [p \in Submitters |-> 0]]
                  IN  IF AllQuestionsDone(idx + 1)
                      THEN endGame(s3)
                      ELSE AddTimer(s3, Timer("next", now + NEXT_QUESTION_DELAY_MS, sid))

\* submitAnswer up to `await this.answerRepository.createAnswer(answer)`
submitAnswer(st, playerId, selectedAnswer) ==
    IF GameId \notin DOMAIN st.sessions THEN [st EXCEPT !.ret = "false"]
    ELSE LET sid == st.sessions[GameId]
             s == st.heap[sid]
         IN  IF playerId \in s.playersAnswered \/ ~isValidAnswerIndex(selectedAnswer)
             THEN [st EXCEPT !.ret = "false"]
             ELSE LET responseTime == now - s.currentQuestionStartTime
                      idx == s.game.currentQuestionIndex
                  IN  IF idx >= Len(CorrectAnswers)
                      THEN \* currentQuestion is undefined: reading .correctAnswer throws
                           [st EXCEPT !.ret = "throw"]
                      ELSE LET isCorrect == selectedAnswer = CorrectAnswers[idx + 1]
                               points == IF isCorrect THEN calculatePoints(responseTime) ELSE 0
                               s1 == [st EXCEPT
                                        !.heap[sid].answers[playerId] =
                                            [answer |-> selectedAnswer,
                                             responseTime |-> responseTime],
                                        !.heap[sid].playersAnswered = @ \cup {playerId},
                                        !.answerRows = @ + 1,
                                        !.acceptedNow[playerId] = @ + 1]
                           IN  AddCall(s1, [Call("submitAnswer", "createAnswer", sid, playerId)
                                              EXCEPT !.selectedAnswer = selectedAnswer,
                                                     !.responseTime = responseTime,
                                                     !.isCorrect = isCorrect,
                                                     !.points = points])

\* submitAnswer when createAnswer rejects: the await throws, nothing after it
\* runs, no record is stored, and the handler's catch block sends
\* ANSWER_SUBMIT_ERROR to the requester's socket
submitAnswerCreateFailed(st, c) ==
    socketEmitter([DropCall(st, c) EXCEPT !.answerRows = @ - 1, !.ret = "throw"],
                  [Ev("error", "ANSWER_SUBMIT_ERROR", 0, 0, 0, 0) EXCEPT !.gid = c.who])

\* submitAnswer from createAnswer's return up to `await this.gameRepository.updateGame(...)`
submitAnswerScores(st, c) ==
    LET g == st.heap[c.sess].game
        s1 == IF c.who = g.player1Id
              THEN [st EXCEPT !.heap[c.sess].game.player1Score = @ + c.points]
              ELSE IF c.who = g.player2Id
              THEN [st EXCEPT !.heap[c.sess].game.player2Score = @ + c.points]
              ELSE st
        g1 == s1.heap[c.sess].game
        updates == [player1Score |-> g1.player1Score, player2Score |-> g1.player2Score]
    IN  AddCall(DropCall(updateGame(s1, GameId, updates), c), [c EXCEPT !.stage = "updateGame"])

\* submitAnswer from updateGame's return to `return true`
submitAnswerFinish(st, c) ==
    LET s == st.heap[c.sess]
        s1 == socketEmitter(DropCall(st, c), Ev("opponent-answered", c.who, 0, 0, 0, 0))
        playerCount == IF s.game.player2Id # NULL THEN 2 ELSE 1
        s2 == IF Cardinality(s.playersAnswered) >= playerCount
              THEN endQuestion(s1, "early")
              ELSE s1
    IN  [s2 EXCEPT !.ret = "true"]

\* endGame from updateGame's return up to `await deleteAnswersByGame(gameId)`
endGameCompleted(st, c) ==
    LET g == st.heap[c.sess].game
        s1 == socketEmitter(st, Ev("game-completed", c.who, g.currentQuestionIndex, 0,
                                   g.player1Score, g.player2Score))
        s2 == [s1 EXCEPT !.sessions = Remove(@, GameId),
                         !.answerRows = 0,
                         !.completions.emitted = @ + 1]
    IN  AddCall(DropCall(s2, c), [c EXCEPT !.stage = "deleteAnswersByGame"])

\* a games table whose answers do not go with their game
deleteGameNoCascade(st, id) ==
    [st EXCEPT !.games = Remove(@, id)]

\* DatabaseGameRepository.deleteGame: DELETE FROM games WHERE id; the answers
\* of the game go with it (answers.game_id ... ON DELETE CASCADE)
deleteGame(st, id) ==
    [st EXCEPT !.games = Remove(@, id), !.answerRows = 0]

\* the cleanup without the deleteGame call: the match record stays
endGameKeepGame(st, c) ==
    AddCall(DropCall(st, c), [c EXCEPT !.stage = "deleteGame"])

\* endGame from deleteAnswersByGame's return up to `await deleteGame(gameId)`
endGameDeleteGame(st, c) ==
    AddCall(DropCall(deleteGame(st, GameId), c),
            [c EXCEPT !.stage = "deleteGame"])

\* the snapshot without Math.max(0, ...)
syncGameStateUnclamped(st) ==
    IF GameId \notin DOMAIN st.sessions THEN st
    ELSE LET s == st.heap[st.sessions[GameId]]
             idx == s.game.currentQuestionIndex
             timeElapsed == now - s.currentQuestionStartTime
             timeRemaining == QUESTION_TIME_LIMIT_SECONDS * 1000 - timeElapsed
         IN  socketEmitter(st, Ev("game-state-sync", NULL,
                                  IF idx < Len(CorrectAnswers) THEN idx ELSE -1,
                                  timeRemaining, s.game.player1Score, s.game.player2Score))

\* the snapshot without the test for a session: an empty one is sent instead
syncGameStateNoSessionTest(st) ==
    IF GameId \notin DOMAIN st.sessions
    THEN socketEmitter(st, Ev("game-state-sync", NULL, -1, 0, 0, 0))
    ELSE LET s == st.heap[st.sessions[GameId]]
             idx == s.game.currentQuestionIndex
             timeElapsed == now - s.currentQuestionStartTime
             timeRemaining == Max(0, QUESTION_TIME_LIMIT_SECONDS * 1000 - timeElapsed)
         IN  socketEmitter(st, Ev("game-state-sync", NULL,
                                  IF idx < Len(CorrectAnswers) THEN idx ELSE -1,
                                  timeRemaining, s.game.player1Score, s.game.player2Score))

syncGameState(st) ==
    IF GameId \notin DOMAIN st.sessions THEN st
    ELSE LET s == st.heap[st.sessions[GameId]]
             idx == s.game.currentQuestionIndex
             timeElapsed == now - s.currentQuestionStartTime
             timeRemaining == Max(0, QUESTION_TIME_LIMIT_SECONDS * 1000 - timeElapsed)
         IN  socketEmitter(st, Ev("game-state-sync", NULL,
                                  IF idx < Len(CorrectAnswers) THEN idx ELSE -1,
                                  timeRemaining, s.game.player1Score, s.game.player2Score))

\* the setInterval callback of startQuestion, closed over the session object
countdownTick(st, t) ==
    LET s == st.heap[t.sess]
        elapsed == now - s.currentQuestionStartTime
        remaining == Max(0, QUESTION_TIME_LIMIT_SECONDS * 1000 - elapsed)
        s1 == socketEmitter(st, Ev("countdown-tick", NULL, 0, remaining, 0, 0))
    IN  IF remaining <= 0 /\ s.countdownInterval # NoTimer
        THEN [ClearTimer(s1, s.countdownInterval)
                EXCEPT !.heap[t.sess].countdownInterval = NoTimer]
        ELSE s1

\* startGame up to `await this.gameRepository.getGameById(gameId)`
startGame(st) ==
    AddCall(st, [Call("startGame", "getGameById", 0, NULL)
                   EXCEPT !.row = IF GameId \in DOMAIN st.games
                                  THEN st.games[GameId] ELSE NoRow])

\* a failed start that is not signalled
startFailedSilently(st, c) ==
    [DropCall(st, c) EXCEPT !.ret = "false"]

\* the setTimeout callback of the join handler: a failed start is signalled to the room
startFailed(st, c) ==
    [socketEmitter(DropCall(st, c), Ev("error", "GAME_START_ERROR", 0, 0, 0, 0))
       EXCEPT !.ret = "false"]

\* startGame from getGameById's return up to `await getRandomQuestionsByTheme(...)`
startGameQuestions(st, c) ==
    IF c.row.status = "none" \/ c.row.themeId = NULL \/ c.row.player2Id = NULL
    THEN startFailed(st, c)
    ELSE AddCall(DropCall(st, c), [c EXCEPT !.stage = "getRandomQuestionsByTheme"])

\* startGame from the questions' return up to `await updateGame(gameId, {status: ACTIVE})`
startGameActivate(st, c) ==
    IF themeQuestions < QUESTIONS_PER_GAME
    THEN startFailed(st, c)
    ELSE AddCall(DropCall(updateGame(st, GameId, [status |-> "active"]), c),
                 [c EXCEPT !.stage = "updateGame"])

\* startGame from updateGame's return to `return true`
startGameSession(st, c) ==
    LET sid == Len(st.heap) + 1
        s1 == [DropCall(st, c) EXCEPT !.heap = Append(@, NewSession(c.row)),
                                      !.sessions = Put(@, GameId, sid)]
        s2 == socketEmitter(s1, Ev("game-started", NULL, 0, 0, 0, 0))
    IN  [startQuestion(s2, 0) EXCEPT !.ret = "true"]

----------------------------------------------------------------------------
(* apps/api/src/middleware/socket-security.ts: SocketRateLimiter, as an     *)
(* instance new SocketRateLimiter(MaxRequests, WindowMs)                     *)

SocketIds == {"s1", "s2"}
EventNames == {"player-submit-answer", "request-game-state"}

\* the limiter that tests > in place of >=: one request more than maxRequests
isAllowedOneMore(limits, socketId, event, at) ==
    LET l1 == IF socketId \in DOMAIN limits THEN limits
              ELSE Put(limits, socketId, [e \in {} |-> <<>>])
        s1 == IF event \in DOMAIN l1[socketId] THEN l1[socketId]
              ELSE Put(l1[socketId], event, <<>>)
        timestamps == s1[event]
        Valid(timestamp) == at - timestamp < WindowMs
        validTimestamps == SelectSeq(timestamps, Valid)
    IN  IF Len(validTimestamps) > MaxRequests
        THEN [rateLimits |-> Put(l1, socketId, Put(s1, event, validTimestamps)),
              ret |-> FALSE]
        ELSE [rateLimits |-> Put(l1, socketId, Put(s1, event, Append(validTimestamps, at))),
              ret |-> TRUE]

\* SocketRateLimiter.isAllowed(socketId, event) called when Date.now() is at:
\* the map it leaves and what it returns
isAllowed(limits, socketId, event, at) ==
    LET l1 == IF socketId \in DOMAIN limits THEN limits
              ELSE Put(limits, socketId, [e \in {} |-> <<>>])
        s1 == IF event \in DOMAIN l1[socketId] THEN l1[socketId]
              ELSE Put(l1[socketId], event, <<>>)
        timestamps == s1[event]
        Valid(timestamp) == at - timestamp < WindowMs
        validTimestamps == SelectSeq(timestamps, Valid)
    IN  IF Len(validTimestamps) >= MaxRequests
        THEN [rateLimits |-> Put(l1, socketId, Put(s1, event, validTimestamps)),
              ret |-> FALSE]
        ELSE [rateLimits |-> Put(l1, socketId, Put(s1, event, Append(validTimestamps, at))),
              ret |-> TRUE]

----------------------------------------------------------------------------
(* DatabaseUnitOfWork (infrastructure unit of work), with the transaction,  *)
(* the event store and the publisher it is given.  A call of theirs         *)
(* succeeds or fails.                                                       *)

NoEvents == [a \in {} |-> 0]

\* new DatabaseUnitOfWork(...): no transaction, no collected events
NewUnitOfWork ==
    [transaction |-> "none",            \* "active": transaction.isActive()
     eventCollections |-> NoEvents,     \* aggregate id -> number of collected events
     pc |-> "idle",                       \* the await commit() or rollback() is suspended at
     op |-> "none",                     \* the public method that is running
     toSave |-> {},                     \* the collections saveEvents has not saved yet
     error |-> "none",                  \* the error commit's catch block holds
     saved |-> {},                      \* history: the aggregates saved by this commit
     failed |-> "none",                 \* history: the first call of this commit that failed
     added |-> 0,                       \* history: events ever collected
     published |-> NoEvents,            \* history: what publishBatch was last called with
     result |-> [op |-> "none", outcome |-> "none"]] \* the last call that finished

clearEvents(u) == [u EXCEPT !.eventCollections = NoEvents]

Returned(u, op, outcome) ==
    [u EXCEPT !.pc = "idle", !.op = "none", !.toSave = {}, !.error = "none",
              !.result = [op |-> op, outcome |-> outcome]]

\* begin(): throws if a transaction is active, else creates and begins one
begin(u) ==
    IF u.transaction = "active"
    THEN Returned(u, "begin", "Transaction already active")
    ELSE Returned([u EXCEPT !.transaction = "active"], "begin", "ok")

\* addEvents(aggregateId, aggregateType, events) with n events
addEvents(u, aggregateId, n) ==
    IF n = 0 THEN Returned(u, "addEvents", "ok")
    ELSE LET existing == IF aggregateId \in DOMAIN u.eventCollections
                         THEN u.eventCollections[aggregateId] ELSE 0
         IN  Returned([u EXCEPT !.eventCollections = Put(@, aggregateId, existing + n),
                                !.added = @ + n],
                      "addEvents", "ok")

\* commit() leaves through `finally { this.clearEvents() }`
commitFinally(u, outcome) == Returned(clearEvents(u), "commit", outcome)

\* rollback() up to `await this.transaction.rollback()`, called by the client
\* (op = "rollback") or by commit's catch block (op = "commit", holding error)
rollback(u, op, error) ==
    IF u.transaction = "active"
    THEN [u EXCEPT !.pc = "rollback", !.op = op, !.error = error]
    ELSE IF op = "commit" THEN commitFinally(clearEvents(u), error)
    ELSE Returned(clearEvents(u), "rollback", "ok")

\* commit's catch block: `await this.rollback(); throw error`
commitCatch(u, error) ==
    rollback([u EXCEPT !.failed = error], "commit", error)

\* publishEvents() up to `await this.eventPublisher.publishBatch(allEvents)`
publishEvents(u) ==
    IF DOMAIN u.eventCollections = {} THEN commitFinally(u, "ok")
    ELSE [u EXCEPT !.pc = "publishBatch", !.published = u.eventCollections]

\* commit() from saveEvents' return up to `await this.transaction.commit()`
commitTransaction(u) == [u EXCEPT !.pc = "transaction.commit"]

\* commit() up to the first `await this.eventStore.saveEvents(...)`
commit(u) ==
    LET u1 == [u EXCEPT !.op = "commit", !.saved = {}, !.failed = "none",
                        !.published = NoEvents]
    IN  IF u.transaction # "active"
        THEN Returned(u1, "commit", "No active transaction to commit")
        ELSE IF DOMAIN u.eventCollections = {} THEN commitTransaction(u1)
        ELSE [u1 EXCEPT !.pc = "saveEvents", !.toSave = DOMAIN u.eventCollections]

\* eventStore.saveEvents resolved for collection a: the loop goes on
saveEventsDone(u, a) ==
    LET u1 == [u EXCEPT !.toSave = @ \ {a}, !.saved = @ \cup {a}]
    IN  IF u1.toSave = {} THEN commitTransaction(u1) ELSE u1

Aside ==
    LET NoVerdicts ==
            [last |-> [socketId |-> NULL, event |-> NULL, at |-> 0, ret |-> FALSE],
             allowedAt |-> [k \in SocketIds \X EventNames |-> <<>>],
             calls |-> 0]
    IN
        LET NoLimits == [s \in {} |-> [e \in {} |-> <<>>]]
        IN
            /\ rateLimits = NoLimits
            /\ verdicts = NoVerdicts
            /\ uow = NewUnitOfWork

----------------------------------------------------------------------------
(* Steps of the event loop *)

Due(kind) == {t \in BagToSet(timers) : t.kind = kind /\ now >= t.due}
Waiting(kind, stage) == {c \in BagToSet(calls) : c.kind = kind /\ c.stage = stage}
Fired(t) == ClearTimer(St, t)

KeepAside == UNCHANGED <<rateLimits, verdicts, uow>>
KeepHarness == UNCHANGED <<pin, pout, themeQuestions, horizon, agg, aggRet>> /\ KeepAside
KeepClock == UNCHANGED now

StartGameTimer ==
    \E t \in Due("startGame") :
        t.gid = GameId /\ Commit(startGame(Fired(t))) /\ KeepClock /\ KeepHarness

StartGameGotGame ==
    \E c \in Waiting("startGame", "getGameById") :
        Commit(startGameQuestions(St, c)) /\ KeepClock /\ KeepHarness

StartGameGotQuestions ==
    \E c \in Waiting("startGame", "getRandomQuestionsByTheme") :
        Commit(startGameActivate(St, c)) /\ KeepClock /\ KeepHarness

StartGameActivated ==
    \E c \in Waiting("startGame", "updateGame") :
        Commit(startGameSession(St, c)) /\ KeepClock /\ KeepHarness

\* the handler that takes the points from the time the client reports
playerSubmitAnswerTrustsClient(st, playerId, selectedAnswer, responseTime) ==
    IF selectedAnswer < MIN_ANSWER_INDEX \/ selectedAnswer > MAX_ANSWER_INDEX
    THEN [st EXCEPT !.ret = "VALIDATION_ERROR"]
    ELSE IF responseTime < MIN_CLIENT_RESPONSE_TIME \/ responseTime > MAX_CLIENT_RESPONSE_TIME
    THEN [st EXCEPT !.ret = "VALIDATION_ERROR"]
    ELSE LET s1 == submitAnswer(st, playerId, selectedAnswer)
             new == BagToSet(s1.calls (-) st.calls)
         IN  IF new = {} THEN s1
             ELSE LET c == CHOOSE x \in new : TRUE
                      points == IF c.isCorrect THEN calculatePoints(responseTime) ELSE 0
                  IN  AddCall(DropCall(s1, c),
                              [c EXCEPT !.responseTime = responseTime, !.points = points])

\* the player-submit-answer handler from its validation of the fields to the
\* call of gameManager.submitAnswer(gameId, playerId, selectedAnswer)
playerSubmitAnswer(st, playerId, selectedAnswer, responseTime) ==
    IF selectedAnswer < MIN_ANSWER_INDEX \/ selectedAnswer > MAX_ANSWER_INDEX
    THEN [st EXCEPT !.ret = "VALIDATION_ERROR"]
    ELSE IF responseTime < MIN_CLIENT_RESPONSE_TIME \/ responseTime > MAX_CLIENT_RESPONSE_TIME
    THEN [st EXCEPT !.ret = "VALIDATION_ERROR"]
    ELSE submitAnswer(st, playerId, selectedAnswer)

SubmitAnswer ==
    \E p \in Submitters, a \in AnswerInputs, t \in ClientResponseTimes :
        Commit(playerSubmitAnswer(St, p, a, t)) /\ KeepClock /\ KeepHarness

SubmitAnswerCreated ==
    \E c \in Waiting("submitAnswer", "createAnswer") :
        Commit(submitAnswerScores(St, c)) /\ KeepClock /\ KeepHarness

SubmitAnswerUpdated ==
    \E c \in Waiting("submitAnswer", "updateGame") :
        Commit(submitAnswerFinish(St, c)) /\ KeepClock /\ KeepHarness

EndGameUpdated ==
    \E c \in Waiting("endGame", "updateGame") :
        Commit(endGameCompleted(St, c)) /\ KeepClock /\ KeepHarness

EndGameAnswersDeleted ==
    \E c \in Waiting("endGame", "deleteAnswersByGame") :
        Commit(endGameDeleteGame(St, c)) /\ KeepClock /\ KeepHarness

EndGameDeleted ==
    \E c \in Waiting("endGame", "deleteGame") :
        Commit(DropCall(St, c)) /\ KeepClock /\ KeepHarness

DeadlineTimer ==
    \E t \in Due("deadline") : Commit(endQuestion(Fired(t), "deadline")) /\ KeepClock /\ KeepHarness

NextQuestionTimer ==
    \E t \in Due("next") :
        /\ Commit(startQuestion(Fired(t), heap[t.sess].game.currentQuestionIndex))
        /\ KeepClock /\ KeepHarness

CountdownTick ==
    \E t \in Due("interval") : Commit(countdownTick(St, t)) /\ KeepClock /\ KeepHarness

SyncGameState ==
    Commit(syncGameState(St)) /\ KeepClock /\ KeepHarness

\* Time passes: to the next pending one-shot timer, or by TimeStep if that is sooner.
Advance ==
    LET OneShot(t) == t.kind \in {"startGame", "deadline", "next"}
    IN
        LET SetMin(S) == CHOOSE x \in S : \A y \in S : x <= y
        IN
            /\ now < horizon
            /\ \A t \in BagToSet(timers) : OneShot(t) => t.due > now
            /\ now' = SetMin({now + TimeStep} \cup {t.due : t \in {u \in BagToSet(timers) : OneShot(u)}})
            /\ Commit(St)
            /\ KeepHarness

\* the match as the join handler leaves it: p1 created it, p2 joined it
JoinedGame ==
    [NoRow EXCEPT !.status = "active", !.player1Id = "p1", !.player2Id = "p2",
                  !.createdAt = 1, !.themeId = Science]

\* the server when p2's join request has been served: the start is scheduled
MatchJoined ==
    /\ now = 0
    /\ games = [k \in {GameId} |-> JoinedGame]
    /\ answerRows = 0
    /\ heap = <<>>
    /\ sessions = [k \in {} |-> 0]
    /\ timers = SetToBag({Timer("startGame", START_DELAY_MS, 0)})
    /\ calls = EmptyBag
    /\ out = <<>>
    /\ live = FALSE
    /\ endedBy = "none"
    /\ acceptedNow = [p \in Submitters |-> 0]
    /\ rooms = [k \in {GameId} |-> {"p1", "p2"}]
    /\ joins = 2
    /\ found = [p \in Joiners |-> IF p = "p2" THEN GameId ELSE NULL]
    /\ stored = [k \in {GameId} |-> {"p1", "p2"}]
    /\ completions = NoCompletions

Init ==
    /\ MatchJoined
    /\ pin = <<0, 0>>
    /\ pout = <<0, 0>>
    /\ themeQuestions = Len(CorrectAnswers)
    /\ horizon = MaxTime
    /\ agg = Game_create
    /\ aggRet = NotCalled
    /\ Aside

Next ==
    \/ StartGameTimer
    \/ StartGameGotGame
    \/ StartGameGotQuestions
    \/ StartGameActivated
    \/ SubmitAnswer
    \/ SubmitAnswerCreated
    \/ SubmitAnswerUpdated
    \/ EndGameUpdated
    \/ EndGameAnswersDeleted
    \/ EndGameDeleted
    \/ DeadlineTimer
    \/ NextQuestionTimer
    \/ CountdownTick
    \/ SyncGameState
    \/ Advance

Spec == Init /\ [][Next]_vars

----------------------------------------------------------------------------
(* The player-join-matchmaking handler and the repository calls it makes *)

\* DatabaseGameRepository.findWaitingGameByTheme: the most recently created waiting game
findWaitingGameByTheme(st, themeId) ==
    LET W == {id \in DOMAIN st.games :
                 st.games[id].themeId = themeId /\ st.games[id].status = "waiting"}
    IN  IF W = {} THEN NULL
        ELSE CHOOSE id \in W : \A o \in W : st.games[o].createdAt <= st.games[id].createdAt

\* DatabaseGameRepository.createGame; games.theme_id references themes(id), so
\* the insert fails and stores nothing when the theme has no row
createGame(st, id, player1Id, themeId) ==
    IF themeId \notin DOMAIN ThemeRows THEN st
    ELSE [st EXCEPT !.games = Put(@, id, [NoRow EXCEPT !.status = "waiting",
                                                       !.player1Id = player1Id,
                                                       !.createdAt = Cardinality(DOMAIN st.games) + 1,
                                                       !.themeId = themeId]),
                    !.stored = Put(@, id, {player1Id})]

joinRoom(st, id, who) ==
    [st EXCEPT !.rooms = Put(@, id, IF id \in DOMAIN @ THEN @[id] \cup {who} ELSE {who})]

\* the handler up to `await gameRepository.findWaitingGameByTheme(themeId)`
joinMatchmaking(st, playerId, themeId) ==
    LET id == findWaitingGameByTheme(st, themeId)
        row == IF id = NULL THEN NoRow ELSE st.games[id]
        s1 == [st EXCEPT !.joins = @ + 1,
                         !.found[playerId] = IF id # NULL /\ row.player1Id # playerId
                                             THEN id ELSE NULL]
    IN  AddCall(s1, [Call("join", "findWaitingGameByTheme", 0, playerId)
                       EXCEPT !.gid = id, !.row = row, !.themeId = themeId])

\* from the waiting game's return up to `await updateGame(...)` or `await createGame(...)`
joinOrCreate(st, c) ==
    IF c.row.status # "none" /\ c.row.player1Id # c.who
    THEN LET s1 == updateGame(st, c.gid, [player2Id |-> c.who, status |-> "active"])
             s2 == IF c.gid \in DOMAIN st.games
                   THEN [s1 EXCEPT !.stored[c.gid] = @ \cup {c.who}] ELSE s1
         IN  AddCall(DropCall(s2, c), [c EXCEPT !.stage = "updateGame"])
    ELSE LET id == NewGameIds[Cardinality(DOMAIN st.games) + 1]
         IN  AddCall(DropCall(createGame(st, id, c.who, c.themeId), c),
                     [c EXCEPT !.stage = "createGame",
                               !.gid = IF c.themeId \in DOMAIN ThemeRows THEN id ELSE NULL])

\* from updateGame's return up to `await gameRepository.getGameById(gameId)`
joinGetGame(st, c) ==
    AddCall(DropCall(joinRoom(st, c.gid, c.who), c),
            [c EXCEPT !.stage = "getGameById",
                      !.row = IF c.gid \in DOMAIN st.games THEN st.games[c.gid] ELSE NoRow])

\* from getGameById's return to the end of the handler
joinNotify(st, c) ==
    IF c.row.status = "none" THEN DropCall(st, c)
    ELSE LET s1 == socketEmitter(DropCall(st, c),
                                 [Ev("player-join-game", c.who, 0, 0, 0, 0) EXCEPT !.gid = c.gid])
             s2 == socketEmitter(s1,
                                 [Ev("opponent-join-game", c.who, 0, 0, 0, 0) EXCEPT !.gid = c.gid])
         IN  AddTimer(s2, [Timer("startGame", now + START_DELAY_MS, 0) EXCEPT !.gid = c.gid])

\* from createGame's return, or its failure, to the end of the handler; an
\* event of socket.emit goes to the requester's socket alone
joinCreated(st, c) ==
    IF c.gid = NULL
    THEN socketEmitter(DropCall(st, c),
                       [Ev("error", "MATCHMAKING_ERROR", 0, 0, 0, 0) EXCEPT !.gid = c.who])
    ELSE joinRoom(DropCall(st, c), c.gid, c.who)

KeepGame == UNCHANGED <<now, pin, pout, themeQuestions, horizon, agg, aggRet>> /\ KeepAside

JoinMatchmaking ==
    /\ joins < MaxJoins
    /\ \E p \in Joiners : Commit(joinMatchmaking(St, p, Science))
    /\ KeepGame

JoinFound ==
    \E c \in Waiting("join", "findWaitingGameByTheme") :
        /\ Cardinality(DOMAIN games) < Len(NewGameIds)
        /\ Commit(joinOrCreate(St, c))
        /\ KeepGame

JoinUpdated ==
    \E c \in Waiting("join", "updateGame") : Commit(joinGetGame(St, c)) /\ KeepGame

JoinGotGame ==
    \E c \in Waiting("join", "getGameById") : Commit(joinNotify(St, c)) /\ KeepGame

JoinCreated ==
    \E c \in Waiting("join", "createGame") : Commit(joinCreated(St, c)) /\ KeepGame

\* the server after setupSocketHandlers: no match, no session, nothing pending
Constructed ==
    /\ now = 0
    /\ games = [k \in {} |-> NoRow]
    /\ answerRows = 0
    /\ heap = <<>>
    /\ sessions = [k \in {} |-> 0]
    /\ timers = EmptyBag
    /\ calls = EmptyBag
    /\ out = <<>>
    /\ live = FALSE
    /\ endedBy = "none"
    /\ acceptedNow = [p \in Submitters |-> 0]
    /\ rooms = [k \in {} |-> {}]
    /\ joins = 0
    /\ found = [p \in Joiners |-> NULL]
    /\ stored = [k \in {} |-> {}]
    /\ completions = NoCompletions
    /\ themeQuestions = Len(CorrectAnswers)
    /\ horizon = MaxTime
    /\ agg = Game_create
    /\ aggRet = NotCalled
    /\ Aside

InitJoin ==
    /\ Constructed
    /\ pin = <<0, 0>>
    /\ pout = <<0, 0>>

NextJoin ==
    \/ JoinMatchmaking
    \/ JoinFound
    \/ JoinUpdated
    \/ JoinGotGame
    \/ JoinCreated

SpecJoin == InitJoin /\ [][NextJoin]_vars

\* join requests for any theme
JoinOtherTheme ==
    \* themes a join request may name: Science, one whose row has is_active =
    \* false, and one that has no row
    LET Themes == {"science", "retired", "unknown"}
    IN
        /\ joins < MaxJoins
        /\ \E p \in Joiners, t \in Themes \ {Science} : Commit(joinMatchmaking(St, p, t))
        /\ KeepGame

NextTheme == NextJoin \/ JoinOtherTheme

SpecTheme == InitJoin /\ [][NextTheme]_vars

----------------------------------------------------------------------------
(* calculatePoints on its own: two latencies, scored *)

NotScored == <<-1, -1>>

Score ==
    /\ pout = NotScored
    /\ pout' = <<calculatePoints(pin[1]), calculatePoints(pin[2])>>
    /\ UNCHANGED <<now, games, answerRows, heap, sessions, timers, calls, out,
                   live, endedBy, acceptedNow, rooms, joins, found, stored, completions,
                   pin, themeQuestions, horizon, agg, aggRet>>
    /\ KeepAside

InitScore ==
    LET Latencies ==
            {k * LatencyStep : k \in 0..MaxLatencySteps}
                \cup {1, QUESTION_TIME_LIMIT - 1, QUESTION_TIME_LIMIT, QUESTION_TIME_LIMIT + 1}
    IN
        /\ Constructed
        /\ pin \in Latencies \X Latencies
        /\ pout = NotScored

NextScore == Score

SpecScore == InitScore /\ [][NextScore]_vars

----------------------------------------------------------------------------
(* The match while nobody submits: it runs on the server's timers.  The     *)
(* participants' sockets may disconnect.                                    *)

\* the disconnect handler, for the socket of participant who: the first room that
\* holds the socket loses it; an emptied room is dropped, the others are notified
\* a disconnect handler that also ends the match of the room it leaves
disconnectEndsMatch(st, who) ==
    LET G == {g \in DOMAIN st.rooms : who \in st.rooms[g]}
    IN  IF G = {} THEN st
        ELSE LET g == CHOOSE x \in G : TRUE
                 left == st.rooms[g] \ {who}
                 ended == [st EXCEPT !.sessions = Remove(@, g)]
             IN  IF left = {}
                 THEN [ended EXCEPT !.rooms = Remove(@, g)]
                 ELSE socketEmitter([ended EXCEPT !.rooms[g] = left],
                                    [Ev("error", "PLAYER_DISCONNECTED", 0, 0, 0, 0)
                                       EXCEPT !.gid = g])

disconnect(st, who) ==
    LET G == {g \in DOMAIN st.rooms : who \in st.rooms[g]}
    IN  IF G = {} THEN st
        ELSE LET g == CHOOSE x \in G : TRUE
                 left == st.rooms[g] \ {who}
             IN  IF left = {}
                 THEN [st EXCEPT !.rooms = Remove(@, g)]
                 ELSE socketEmitter([st EXCEPT !.rooms[g] = left],
                                    [Ev("error", "PLAYER_DISCONNECTED", 0, 0, 0, 0)
                                       EXCEPT !.gid = g])

Disconnect ==
    \E p \in Submitters :
        /\ \E g \in DOMAIN rooms : p \in rooms[g]
        /\ Commit(disconnect(St, p)) /\ KeepClock /\ KeepHarness

\* the theme has all its questions, or one too few
ThemeSizes == {QUESTIONS_PER_GAME - 1, QUESTIONS_PER_GAME}

InitIdle ==
    /\ MatchJoined
    /\ pin = <<0, 0>>
    /\ pout = <<0, 0>>
    /\ themeQuestions \in ThemeSizes
    /\ horizon = MaxIdleTime
    /\ agg = Game_create
    /\ aggRet = NotCalled
    /\ Aside

NextIdle ==
    \/ StartGameTimer
    \/ StartGameGotGame
    \/ StartGameGotQuestions
    \/ StartGameActivated
    \/ EndGameUpdated
    \/ EndGameAnswersDeleted
    \/ EndGameDeleted
    \/ DeadlineTimer
    \/ NextQuestionTimer
    \/ CountdownTick
    \/ Disconnect
    \/ Advance

SpecIdle == InitIdle /\ [][NextIdle]_vars

\* timers fire and persistence calls return
FairIdle ==
    /\ WF_vars(StartGameTimer)
    /\ WF_vars(StartGameGotGame)
    /\ WF_vars(StartGameGotQuestions)
    /\ WF_vars(StartGameActivated)
    /\ WF_vars(EndGameUpdated)
    /\ WF_vars(EndGameAnswersDeleted)
    /\ WF_vars(EndGameDeleted)
    /\ WF_vars(DeadlineTimer)
    /\ WF_vars(NextQuestionTimer)
    /\ WF_vars(Advance)

SpecIdleFair == SpecIdle /\ FairIdle

----------------------------------------------------------------------------
(* The match of two racing joiners.  p1 created g1; p2 and p3 both asked to *)
(* join and both were handed g1 as the waiting match before either went on. *)
(* p2's handler has finished; p3's is still suspended at                    *)
(* findWaitingGameByTheme, holding the row as it read it.                   *)

RaceJoined ==
    LET RacingJoin ==
            LET WaitingGame ==
                    [NoRow EXCEPT !.status = "waiting", !.player1Id = "p1", !.createdAt = 1,
                                  !.themeId = Science]
            IN
                [Call("join", "findWaitingGameByTheme", 0, "p3") EXCEPT !.gid = GameId, !.row = WaitingGame]
    IN
        /\ now = 0
        /\ games = [k \in {GameId} |-> JoinedGame]
        /\ answerRows = 0
        /\ heap = <<>>
        /\ sessions = [k \in {} |-> 0]
        /\ timers = SetToBag({Timer("startGame", START_DELAY_MS, 0)})
        /\ calls = SetToBag({RacingJoin})
        /\ out = <<Ev("player-join-game", "p2", 0, 0, 0, 0), Ev("opponent-join-game", "p2", 0, 0, 0, 0)>>
        /\ live = FALSE
        /\ endedBy = "none"
        /\ acceptedNow = [p \in Submitters |-> 0]
        /\ rooms = [k \in {GameId} |-> {"p1", "p2"}]
        /\ joins = MaxJoins
        /\ found = [p \in Joiners |-> IF p = "p1" THEN NULL ELSE GameId]
        /\ stored = [k \in {GameId} |-> {"p1", "p2"}]
        /\ completions = NoCompletions

InitRace ==
    /\ RaceJoined
    /\ pin = <<0, 0>>
    /\ pout = <<0, 0>>
    /\ themeQuestions = Len(CorrectAnswers)
    /\ horizon = MaxIdleTime
    /\ agg = Game_create
    /\ aggRet = NotCalled
    /\ Aside

NextRace ==
    \/ NextIdle
    \/ JoinFound
    \/ JoinUpdated
    \/ JoinGotGame

SpecRace == InitRace /\ [][NextRace]_vars

----------------------------------------------------------------------------
(* The Game aggregate on its own: any sequence of calls of its methods *)

Called(op, r) ==
    LET KeepServer ==
            UNCHANGED <<now, games, answerRows, heap, sessions, timers, calls, out,
                        live, endedBy, acceptedNow, rooms, joins, found, stored, completions,
                        pin, pout, themeQuestions, horizon>>
            /\ KeepAside
    IN
        /\ agg' = r.g
        /\ aggRet' = [op |-> op, result |-> r.result]
        /\ KeepServer

GameAddPlayer2 == \E p \in Submitters : Called("addPlayer2", addPlayer2(agg, p))

GameStart == \E n \in ThemeSizes : Called("start", start(agg, n))

GameStartQuestion == Called("startQuestion", Game_startQuestion(agg))

GameSubmitAnswer ==
    LET ResponseTimes == {0, QUESTION_TIME_LIMIT + 1}
    IN
        LET AnswerIndexes == {0, 1}
        IN
            \E p \in Joiners, a \in AnswerIndexes, t \in ResponseTimes :
                /\ agg.currentQuestionIndex < Len(CorrectAnswers)
                /\ agg.player1Score + agg.player2Score < MaxGameScore
                /\ Called("submitAnswer", Game_submitAnswer(agg, p, agg.currentQuestionIndex, a, t))

GameCompleteQuestion ==
    /\ agg.currentQuestionIndex < MaxGameIndex
    /\ Called("completeQuestion", completeQuestion(agg))

GameComplete == Called("complete", complete(agg))

GameCancel == Called("cancel", cancel(agg))

InitGame ==
    /\ Constructed
    /\ pin = <<0, 0>>
    /\ pout = <<0, 0>>

NextGame ==
    \/ GameAddPlayer2
    \/ GameStart
    \/ GameStartQuestion
    \/ GameSubmitAnswer
    \/ GameCompleteQuestion
    \/ GameComplete
    \/ GameCancel

SpecGame == InitGame /\ [][NextGame]_vars

----------------------------------------------------------------------------
(* The last question with a database that executes an INSERT some time      *)
(* after createAnswer sent it: the statements of one client run on several  *)
(* connections (postgres(connectionString)), so the INSERT of a suspended   *)
(* submitAnswer may execute before or after the statements endGame sends.   *)

LAST_QUESTION_INDEX == QUESTIONS_PER_GAME - 1
\* nobody answered questions 1 to 4 and each ended on its deadline
LastQuestionStart ==
    START_DELAY_MS + LAST_QUESTION_INDEX * (QUESTION_TIME_LIMIT_SECONDS * 1000 + NEXT_QUESTION_DELAY_MS)

\* the server right after startQuestion(gameId, 4)
LastQuestionStarted ==
    \* the server when the delay after question 4 is over and startQuestion has not run yet
    LET BeforeLastQuestion ==
            [games |-> [k \in {GameId} |-> JoinedGame],
             answerRows |-> 0,
             heap |-> <<[NewSession(JoinedGame) EXCEPT
                           !.game.currentQuestionIndex = LAST_QUESTION_INDEX,
                           !.currentQuestionStartTime =
                               LastQuestionStart - QUESTION_TIME_LIMIT_SECONDS * 1000 - NEXT_QUESTION_DELAY_MS]>>,
             sessions |-> [k \in {GameId} |-> 1],
             timers |-> EmptyBag, calls |-> EmptyBag, out |-> <<>>, ret |-> "none",
             live |-> FALSE, endedBy |-> "deadline",
             acceptedNow |-> [p \in Submitters |-> 0],
             rooms |-> [k \in {GameId} |-> {"p1", "p2"}],
             joins |-> 2,
             found |-> [p \in Joiners |-> IF p = "p2" THEN GameId ELSE NULL],
             stored |-> [k \in {GameId} |-> {"p1", "p2"}],
             completions |-> NoCompletions]
    IN
        /\ now = LastQuestionStart
        /\ LET st == startQuestion(BeforeLastQuestion, LAST_QUESTION_INDEX)
           IN  /\ games = st.games
               /\ answerRows = st.answerRows
               /\ heap = st.heap
               /\ sessions = st.sessions
               /\ timers = st.timers
               /\ calls = st.calls
               /\ out = st.out
               /\ live = st.live
               /\ endedBy = st.endedBy
               /\ acceptedNow = st.acceptedNow
               /\ rooms = st.rooms
               /\ joins = st.joins
               /\ found = st.found
               /\ stored = st.stored
               /\ completions = st.completions

SubmitAnswerQueued ==
    \* player-submit-answer up to the await of createAnswer, the INSERT sent and
    \* not yet executed
    LET submitAnswerQueued(st, playerId, selectedAnswer, responseTime) ==
            LET s1 == playerSubmitAnswer(st, playerId, selectedAnswer, responseTime)
                new == BagToSet(s1.calls (-) st.calls)
            IN  IF new = {} THEN s1
                ELSE LET c == CHOOSE x \in new : TRUE
                     IN  [AddCall(DropCall(s1, c), [c EXCEPT !.stage = "insert"])
                            EXCEPT !.answerRows = st.answerRows]
    IN
        \E p \in Submitters, a \in AnswerInputs, t \in ClientResponseTimes :
            Commit(submitAnswerQueued(St, p, a, t)) /\ KeepClock /\ KeepHarness

InsertAnswer ==
    \* the database executes the INSERT (DatabaseAnswerRepository.createAnswer):
    \* the row is stored; if its game has no row the foreign key
    \* answers.game_id rolls the statement back and createAnswer rejects
    LET insertAnswer(st, c) ==
            LET c1 == [c EXCEPT !.stage = "createAnswer"]
                s1 == [AddCall(DropCall(st, c), c1) EXCEPT !.answerRows = @ + 1]
            IN  IF GameId \in DOMAIN st.games THEN s1 ELSE submitAnswerCreateFailed(s1, c1)
    IN
        \E c \in Waiting("submitAnswer", "insert") :
            Commit(insertAnswer(St, c)) /\ KeepClock /\ KeepHarness

InitLate ==
    /\ LastQuestionStarted
    /\ pin = <<0, 0>>
    /\ pout = <<0, 0>>
    /\ themeQuestions = Len(CorrectAnswers)
    /\ horizon = MaxIdleTime
    /\ agg = Game_create
    /\ aggRet = NotCalled
    /\ Aside

NextLate ==
    \/ SubmitAnswerQueued
    \/ InsertAnswer
    \/ SubmitAnswerCreated
    \/ SubmitAnswerUpdated
    \/ EndGameUpdated
    \/ EndGameAnswersDeleted
    \/ EndGameDeleted
    \/ DeadlineTimer
    \/ CountdownTick
    \/ Advance

SpecLate == InitLate /\ [][NextLate]_vars

----------------------------------------------------------------------------
(* The rate limiter on its own: calls of isAllowed as time passes *)

KeepMatch ==
    UNCHANGED <<games, answerRows, heap, sessions, timers, calls, out, live, endedBy,
                acceptedNow, rooms, joins, found, stored, completions,
                pin, pout, themeQuestions, horizon, agg, aggRet>>

IsAllowed ==
    \E socketId \in SocketIds, event \in EventNames :
        LET r == isAllowed(rateLimits, socketId, event, now)
            k == <<socketId, event>>
        IN  /\ verdicts.calls < MaxLimiterCalls
            /\ rateLimits' = r.rateLimits
            /\ verdicts' =
                  [last |-> [socketId |-> socketId, event |-> event, at |-> now, ret |-> r.ret],
                   allowedAt |-> IF r.ret
                                 THEN [verdicts.allowedAt EXCEPT ![k] = Append(@, now)]
                                 ELSE verdicts.allowedAt,
                   calls |-> verdicts.calls + 1]
            /\ UNCHANGED <<now, uow>>
            /\ KeepMatch

LimiterAdvance ==
    /\ now < MaxLimiterTime
    /\ now' = now + LimiterStep
    /\ UNCHANGED <<rateLimits, verdicts, uow>>
    /\ KeepMatch

InitLimiter ==
    /\ Constructed
    /\ pin = <<0, 0>>
    /\ pout = <<0, 0>>

NextLimiter ==
    \/ IsAllowed
    \/ LimiterAdvance

SpecLimiter == InitLimiter /\ [][NextLimiter]_vars

----------------------------------------------------------------------------
(* The unit of work on its own: a client that calls begin, addEvents,      *)
(* commit and rollback one after the other, and the calls commit and       *)
(* rollback wait for returning or failing                                  *)

Step(u) ==
    LET KeepLimiter == UNCHANGED <<now, rateLimits, verdicts>>
    IN
        uow' = u /\ KeepLimiter /\ KeepMatch

UowBegin == uow.pc = "idle" /\ Step(begin(uow))

UowAddEvents ==
    LET Aggregates == {"a1", "a2"}
    IN
        \E a \in Aggregates, n \in 0..1 :
            uow.pc = "idle" /\ uow.added + n <= MaxUowEvents /\ Step(addEvents(uow, a, n))

UowCommit == uow.pc = "idle" /\ Step(commit(uow))

UowRollback == uow.pc = "idle" /\ Step(rollback(uow, "rollback", "none"))

UowSaveEventsDone ==
    \E a \in uow.toSave : uow.pc = "saveEvents" /\ Step(saveEventsDone(uow, a))

UowSaveEventsFailed ==
    uow.pc = "saveEvents" /\ Step(commitCatch(uow, "eventStore.saveEvents"))

UowCommitDone ==
    \* transaction.commit() resolved
    LET commitDone(u) == publishEvents([u EXCEPT !.transaction = "committed"])
    IN
        uow.pc = "transaction.commit" /\ Step(commitDone(uow))

UowCommitFailed ==
    \* transaction.commit() rejected, the transaction being active or not afterwards
    LET commitFailed(u, stillActive) ==
            commitCatch([u EXCEPT !.transaction = IF stillActive THEN "active" ELSE "failed"],
                        "transaction.commit")
    IN
        \E stillActive \in BOOLEAN :
            uow.pc = "transaction.commit" /\ Step(commitFailed(uow, stillActive))

UowPublishDone == uow.pc = "publishBatch" /\ Step(commitFinally(uow, "ok"))

UowPublishFailed ==
    uow.pc = "publishBatch" /\ Step(commitCatch(uow, "eventPublisher.publishBatch"))

UowRollbackDone ==
    \* transaction.rollback() resolved: clearEvents, and commit's catch rethrows
    LET rollbackDone(u) ==
            LET u1 == clearEvents([u EXCEPT !.transaction = "rolledback"])
            IN  IF u.op = "commit" THEN commitFinally(u1, u.error)
                ELSE Returned(u1, "rollback", "ok")
    IN
        uow.pc = "rollback" /\ Step(rollbackDone(uow))

UowRollbackFailed ==
    \* transaction.rollback() rejected: rollback() throws before its clearEvents
    LET rollbackFailed(u) ==
            IF u.op = "commit" THEN commitFinally(u, "transaction.rollback")
            ELSE Returned(u, "rollback", "transaction.rollback")
    IN
        uow.pc = "rollback" /\ Step(rollbackFailed(uow))

InitUow ==
    /\ Constructed
    /\ pin = <<0, 0>>
    /\ pout = <<0, 0>>

NextUow ==
    \/ UowBegin
    \/ UowAddEvents
    \/ UowCommit
    \/ UowRollback
    \/ UowSaveEventsDone
    \/ UowSaveEventsFailed
    \/ UowCommitDone
    \/ UowCommitFailed
    \/ UowPublishDone
    \/ UowPublishFailed
    \/ UowRollbackDone
    \/ UowRollbackFailed

SpecUow == InitUow /\ [][NextUow]_vars

----------------------------------------------------------------------------
(* Properties *)

Emitted(type) == {out[i] : i \in {j \in DOMAIN out : out[j].type = type}}
HasSession == GameId \in DOMAIN sessions
Session == heap[sessions[GameId]]

\* C1: for every participant and question index at most one submitAnswer call is
\* accepted (acceptedNow counts the accepted calls for the current index).
C1_AtMostOneAccepted == \A p \in Submitters : acceptedNow[p] <= 1

\* C2: once the live question was ended because both participants had answered,
\* the session's two timers are cancelled and, until the next question starts, no
\* countdown-tick is emitted and the deadline ends no question.
C2_EarlyEndIsFinal ==
    [][(HasSession /\ ~live /\ endedBy = "early") =>
          /\ Session.questionTimer = NoTimer /\ Session.countdownInterval = NoTimer
          /\ Emitted("countdown-tick")' = {}
          /\ endedBy' # "deadline"]_vars

\* C3: endQuestion is idempotent per question: once the live question has been
\* ended, and until the next one starts, no step emits question-timeout again,
\* increments currentQuestionIndex or schedules another startQuestion.
C3_EndQuestionIdempotent ==
    [][(HasSession /\ ~live /\ HasSession') =>
          /\ Emitted("question-timeout")' = {}
          /\ Session'.game.currentQuestionIndex = Session.game.currentQuestionIndex
          /\ \A t \in BagToSet(timers') :
                 t.kind = "next" => CopiesIn(t, timers') <= CopiesIn(t, timers)]_vars

\* C4: when two concurrent join requests of different participants found the same
\* waiting match, then once the handlers have finished exactly one of the two is
\* its participant 2 and the other is participant 1 of another, waiting, match.
C4_OneClaimsOtherCreates ==
    \A a \in Joiners, b \in Joiners :
        (a # b /\ calls = EmptyBag /\ found[a] # NULL /\ found[a] = found[b]) =>
            \E w \in {a, b} :
                /\ games[found[a]].player2Id = w
                /\ \E g \in DOMAIN games \ {found[a]} :
                       /\ games[g].player1Id \in {a, b} \ {w}
                       /\ games[g].status = "waiting"

\* C5: the ids ever stored as participant 1 or 2 of one match are at most two.
C5_AtMostTwoParticipants == \A g \in DOMAIN stored : Cardinality(stored[g]) <= 2

\* C6: a match's currentQuestionIndex never decreases, and in the step that
\* persists status Completed it equals QUESTIONS_PER_GAME.
C6_IndexMonotoneAndFinal ==
    [][/\ \A sid \in DOMAIN heap :
             heap'[sid].game.currentQuestionIndex >= heap[sid].game.currentQuestionIndex
       /\ (/\ GameId \in DOMAIN games /\ games[GameId].status # "completed"
           /\ GameId \in DOMAIN games' /\ games'[GameId].status = "completed")
          => (HasSession' /\ Session'.game.currentQuestionIndex = QUESTIONS_PER_GAME)]_vars

\* a match whose status Completed has been persisted, at index QUESTIONS_PER_GAME
C6_Witness ==
    /\ GameId \in DOMAIN games /\ games[GameId].status = "completed"
    /\ HasSession /\ Session.game.currentQuestionIndex = QUESTIONS_PER_GAME

\* C7: every game-completed event names as winner the participant with the
\* strictly greater of the final scores it reports, and nobody when they are equal;
\* the winner persisted with status Completed is the same value.
C7_WinnerHasGreaterScore ==
    \A e \in Emitted("game-completed") :
        /\ e.who = (IF e.s1 > e.s2 THEN "p1" ELSE IF e.s2 > e.s1 THEN "p2" ELSE NULL)
        /\ GameId \in DOMAIN games => games[GameId].winnerId = e.who

\* C8: an accepted answer adds no points when the selected option is not the
\* question's correct one or the server-measured latency has reached the limit:
\* a submission is accepted with its correctness and latency as the server sees
\* them, and a step changes a score only by resuming a correct, in-time one.
C8_NoPointsUnlessCorrectInTime ==
    [][LET Accepted ==
               {c \in BagToSet(calls') : /\ c.kind = "submitAnswer" /\ c.stage = "createAnswer"
                                         /\ CopiesIn(c, calls') > CopiesIn(c, calls)}
           Resumed ==
               {c \in Waiting("submitAnswer", "createAnswer") :
                   CopiesIn(c, calls') < CopiesIn(c, calls)}
       IN  /\ \A c \in Accepted :
                 /\ c.responseTime = now - heap[c.sess].currentQuestionStartTime
                 /\ c.isCorrect <=>
                      (c.selectedAnswer
                         = CorrectAnswers[heap[c.sess].game.currentQuestionIndex + 1])
           /\ \A sid \in DOMAIN heap :
                 (\/ heap'[sid].game.player1Score # heap[sid].game.player1Score
                  \/ heap'[sid].game.player2Score # heap[sid].game.player2Score)
                 => \E c \in Resumed :
                        c.isCorrect /\ c.responseTime < QUESTION_TIME_LIMIT]_vars

\* a correct answer given at the limit has been scored: no points
C8_Witness ==
    \E c \in Waiting("submitAnswer", "updateGame") :
        /\ c.isCorrect /\ c.responseTime >= QUESTION_TIME_LIMIT /\ c.points = 0
        /\ heap[c.sess].game.player1Score = 0 /\ heap[c.sess].game.player2Score = 0

\* C9: of two correct answers below the limit the faster one earns more points,
\* and none earns more than MAX_POINTS_PER_QUESTION.
C9_FasterEarnsMore ==
    (pout # NotScored /\ pin[1] < pin[2] /\ pin[2] < QUESTION_TIME_LIMIT) =>
        /\ pout[1] > pout[2]
        /\ pout[1] <= MAX_POINTS_PER_QUESTION /\ pout[2] <= MAX_POINTS_PER_QUESTION

\* C10: every game-state-sync snapshot reports a timeRemaining in [0, time limit].
C10_SyncTimeRemainingInRange ==
    \A e \in Emitted("game-state-sync") :
        e.t >= 0 /\ e.t <= QUESTION_TIME_LIMIT_SECONDS * 1000

\* a snapshot taken after the deadline, in the delay before the next question
C10_Witness ==
    /\ HasSession /\ ~live
    /\ now - Session.currentQuestionStartTime > QUESTION_TIME_LIMIT_SECONDS * 1000
    /\ \E e \in Emitted("game-state-sync") : e.t = 0

C13_StatusOnlyForward ==
    [][LET Rank(status) ==
               CASE status = "waiting" -> 1
                 [] status = "active" -> 2
                 [] OTHER -> 3
       IN  \A g \in DOMAIN games \cap DOMAIN games' :
              /\ Rank(games'[g].status) >= Rank(games[g].status)
              /\ Rank(games[g].status) = 3 => games'[g].status = games[g].status]_vars

\* C14: when the theme has fewer than QUESTIONS_PER_GAME questions, the step in
\* which startGame gets the questions aborts the start: GAME_START_ERROR is
\* signalled, no session exists, game-started is not emitted and the persisted
\* status of the match is waiting.
C14_ShortThemeAbortsStart ==
    [][LET Resumed ==
               {c \in Waiting("startGame", "getRandomQuestionsByTheme") :
                   CopiesIn(c, calls') < CopiesIn(c, calls)}
       IN  (themeQuestions < QUESTIONS_PER_GAME /\ Resumed # {}) =>
              /\ \E e \in Emitted("error")' : e.who = "GAME_START_ERROR"
              /\ heap' = <<>> /\ ~HasSession'
              /\ Emitted("game-started")' = {}
              /\ GameId \in DOMAIN games' /\ games'[GameId].status = "waiting"]_vars


\* C15: Game.cancel succeeds in every status before completed, sets the
\* status to cancelled and leaves the winner absent; on a completed game it
\* throws and leaves status, winner and scores as they were.
C15_CancelOnlyBeforeCompleted ==
    [][aggRet'.op = "cancel" =>
          IF agg.status = "completed"
          THEN /\ aggRet'.result = "GameAlreadyCompletedError"
               /\ agg'.status = agg.status
               /\ agg'.winnerId = agg.winnerId
               /\ agg'.player1Score = agg.player1Score
               /\ agg'.player2Score = agg.player2Score
          ELSE /\ aggRet'.result = "ok"
               /\ agg'.status = "cancelled"
               /\ agg'.winnerId = NULL
               /\ agg'.player1Score = agg.player1Score
               /\ agg'.player2Score = agg.player2Score]_vars

\* a cancel was refused on a completed game that has a winner
C15_Witness ==
    /\ aggRet = [op |-> "cancel", result |-> "GameAlreadyCompletedError"]
    /\ agg.status = "completed"
    /\ agg.winnerId = "p2"
    /\ agg.player2Score > agg.player1Score


C17_SessionLeadsToCompleted ==
    (/\ HasSession
     /\ Session.game.currentQuestionIndex = 0
     /\ LET MatchDuration ==
                QUESTIONS_PER_GAME * QUESTION_TIME_LIMIT_SECONDS * 1000
                    + (QUESTIONS_PER_GAME - 1) * NEXT_QUESTION_DELAY_MS
        IN  Session.currentQuestionStartTime + MatchDuration <= horizon)
        ~> (Emitted("game-completed") # {} /\ ~HasSession)

\* the match has completed on its deadlines after both participants left
C17_Witness ==
    /\ Emitted("game-completed") # {}
    /\ ~HasSession
    /\ endedBy = "deadline"
    /\ GameId \notin DOMAIN rooms


\* What the room is sent, up to a state sync served before the question ends,
\* when participant p submits option a now: submitAnswer, the return of
\* createAnswer, then syncGameState on a request-game-state.
BroadcastBeforeTimeout(p, a) ==
    LET s1 == submitAnswer(St, p, a)
        c == CHOOSE x \in BagToSet(s1.calls (-) St.calls) : TRUE
        s2 == submitAnswerScores(s1, c)
    IN  syncGameState(s2).out

\* C18: in every state where a participant can still answer the live question,
\* what the room is sent before question-timeout is the same whichever of the
\* options that participant submits.
C18_ChoiceNotBroadcast ==
    \A p \in Submitters :
        (HasSession /\ live /\ p \notin Session.playersAnswered) =>
            \A a, b \in MIN_ANSWER_INDEX..MAX_ANSWER_INDEX :
                BroadcastBeforeTimeout(p, a) = BroadcastBeforeTimeout(p, b)


\* C19: in every state, two player-submit-answer requests that differ only in
\* the responseTime the client reports, both accepted by the handler's
\* validation, leave the server in the same state: the same points and
\* latency recorded for the answer, the same timers for the end of the question.
C19_ClientTimeIgnored ==
    \A p \in Submitters, a \in AnswerInputs, t1, t2 \in ClientResponseTimes :
        (/\ MIN_CLIENT_RESPONSE_TIME <= t1 /\ t1 <= MAX_CLIENT_RESPONSE_TIME
         /\ MIN_CLIENT_RESPONSE_TIME <= t2 /\ t2 <= MAX_CLIENT_RESPONSE_TIME)
            => playerSubmitAnswer(St, p, a, t1) = playerSubmitAnswer(St, p, a, t2)

\* an answer was accepted 5 s into its question and is being stored with the
\* latency the server measured, which is neither of the reported times, and
\* the points that follow from it, which a reported 15000 ms would not give
C19_Witness ==
    \E c \in Waiting("submitAnswer", "createAnswer") :
        /\ c.responseTime = TimeStep
        /\ c.responseTime \notin ClientResponseTimes
        /\ c.isCorrect
        /\ c.points = calculatePoints(TimeStep)
        /\ c.points # calculatePoints(MAX_CLIENT_RESPONSE_TIME)


\* C20: in the step that serves the arrival of a join request of participant p,
\* if a waiting match of another participant exists then the lookup gives the
\* handler such a match, which it will join rather than create a new one.
C20_JoinsWaitingMatchOfAnother ==
    [][\A c \in BagToSet(calls' (-) calls) :
          (/\ c.kind = "join"
           /\ c.stage = "findWaitingGameByTheme"
           /\ \E id \in DOMAIN games :
                  games[id].status = "waiting" /\ games[id].player1Id # c.who)
              => /\ c.row.status = "waiting"
                 /\ c.row.player1Id # c.who]_vars


\* C21: every step that continues a join request for a theme that has no row
\* or is inactive leaves the stored matches as they are, and the step that
\* ends the handler for that request sends an error to the requester.
C21_BadThemeRejected ==
    [][LET ActiveTheme(themeId) == themeId \in DOMAIN ThemeRows /\ ThemeRows[themeId]
       IN  \A c \in BagToSet(calls (-) calls') :
              (c.kind = "join" /\ ~ActiveTheme(c.themeId)) =>
                  /\ games' = games
                  /\ (\A d \in BagToSet(calls' (-) calls) : d.kind # "join") =>
                         out' = <<[Ev("error", "MATCHMAKING_ERROR", 0, 0, 0, 0)
                                     EXCEPT !.gid = c.who]>>]_vars


\* C22: once participant 2 is stored and the handler has armed the start
\* timer, startGame is called when the timer fires, and this leads to
\* game-started with question 0, or to the start failure, sent to the room.
C22_ClaimLeadsToStart ==
    (\E t \in BagToSet(timers) : t.kind = "startGame" /\ t.due = START_DELAY_MS)
        ~> (\/ /\ Emitted("game-started") # {}
               /\ \E e \in Emitted("question-started") : e.q = 0
            \/ Ev("error", "GAME_START_ERROR", 0, 0, 0, 0) \in Emitted("error"))

\* the match started with its first question when the delay had passed
C22_Witness ==
    /\ Emitted("game-started") # {}
    /\ \E e \in Emitted("question-started") : e.q = 0
    /\ now = START_DELAY_MS
    /\ HasSession
    /\ Session.currentQuestionStartTime = START_DELAY_MS


\* C23: in every state where a participant's answer would be accepted, if
\* createAnswer then fails the session is as it was before the submission
\* (the participant not marked, the scores as they were) and the same
\* submission is accepted again.
C23_FailedWriteLeavesSession ==
    LET AcceptedCall(st, p, a) == BagToSet(submitAnswer(st, p, a).calls (-) st.calls)
    IN
        \A p \in Submitters, a \in MIN_ANSWER_INDEX..MAX_ANSWER_INDEX :
            AcceptedCall(St, p, a) # {} =>
                LET c == CHOOSE x \in AcceptedCall(St, p, a) : TRUE
                    s2 == submitAnswerCreateFailed(submitAnswer(St, p, a), c)
                IN  /\ s2.heap = St.heap
                    /\ AcceptedCall(s2, p, a) # {}


\* C24: the step that ends the handler of a join request that was not
\* rejected sends the requester exactly one outcome naming the match:
\* player-create-game after createGame, player-join-game after the claim.
C24_JoinOutcomeDelivered ==
    [][LET Outcomes(events, who, gid) ==
               {i \in DOMAIN events :
                   /\ events[i].type \in {"player-create-game", "player-join-game"}
                   /\ events[i].who = who
                   /\ events[i].gid = gid}
       IN  \A c \in BagToSet(calls (-) calls') :
              (/\ c.kind = "join"
               /\ c.stage \in {"createGame", "getGameById"}
               /\ c.gid # NULL)
                  => \E i \in Outcomes(out', c.who, c.gid) :
                         /\ Outcomes(out', c.who, c.gid) = {i}
                         /\ out'[i].type = IF c.stage = "createGame"
                                           THEN "player-create-game"
                                           ELSE "player-join-game"]_vars


\* C25: in every state without a session for the match, syncGameState emits
\* nothing, does not throw and leaves the whole state as it is.
C25_SyncWithoutSessionIsNoOp ==
    ~HasSession => syncGameState(St) = St

\* the match has completed, its session is removed and its record deleted;
\* the last step, which may be a state sync, emitted nothing
C25_Witness ==
    /\ ~HasSession
    /\ heap # <<>>
    /\ GameId \notin DOMAIN games
    /\ calls = EmptyBag
    /\ out = <<>>


\* C26: the question cycle runs in order. A step emits question-timeout only
\* for the live question, once, and moves the index on by one; it emits
\* question-started only when no question is live, for the index the session
\* is at; it emits game-completed only when no question is live and the index
\* is QUESTIONS_PER_GAME.
C26_QuestionCycleInOrder ==
    [][LET EmittedNext(type) == {i \in DOMAIN out' : out'[i].type = type}
       IN  /\ EmittedNext("question-timeout") # {} =>
                  /\ HasSession /\ live
                  /\ Cardinality(EmittedNext("question-timeout")) = 1
                  /\ heap'[sessions[GameId]].game.currentQuestionIndex
                         = Session.game.currentQuestionIndex + 1
           /\ \A i \in EmittedNext("question-started") :
                  /\ ~live
                  /\ Cardinality(EmittedNext("question-started")) = 1
                  /\ GameId \in DOMAIN sessions'
                  /\ out'[i].q = heap'[sessions'[GameId]].game.currentQuestionIndex
                  /\ HasSession => out'[i].q = Session.game.currentQuestionIndex
           /\ EmittedNext("game-completed") # {} =>
                  /\ HasSession /\ ~live
                  /\ Session.game.currentQuestionIndex = QUESTIONS_PER_GAME]_vars


\* C27: an accepted submission that earns points and still waits for
\* createAnswer, so that its points are not yet in the session's scores,
\* belongs to a match that has not started to complete: its session is in
\* place and endGame has not yet determined the winner. Then the winner and
\* the final scores of game-completed include the points.
C27_AcceptedPointsCounted ==
    \A d \in Waiting("submitAnswer", "createAnswer") :
        d.points > 0 =>
            /\ HasSession
            /\ sessions[GameId] = d.sess
            /\ \A c \in Waiting("endGame", "updateGame") : c.sess # d.sess


\* C28: in every state, submitAnswer called with the id of somebody who is not
\* a participant of the match returns false and changes nothing: no answer
\* record, no entry in the answered set.
C28_OutsiderNeverAccepted ==
    LET Outsider == "p3"
    IN  \A a \in MIN_ANSWER_INDEX..MAX_ANSWER_INDEX :
            submitAnswer(St, Outsider, a) = [St EXCEPT !.ret = "false"]


\* C29: in every state in which submitAnswer would accept an answer of a
\* participant, a question is live: it has been started and has not ended.
C29_AcceptedOnlyWhileLive ==
    LET AcceptedCall(st, p, a) == BagToSet(submitAnswer(st, p, a).calls (-) st.calls)
    IN
        \A p \in Submitters, a \in MIN_ANSWER_INDEX..MAX_ANSWER_INDEX :
            AcceptedCall(St, p, a) # {} => (HasSession /\ live)


\* C30: at every moment a session has at most one pending deadline timer and
\* at most one running countdown interval.
C30_OneTimerOfEachKind ==
    LET PendingCount(kind, sid) ==
            LET T == {t \in BagToSet(timers) : t.kind = kind /\ t.sess = sid}
            IN  BagCardinality([t \in T |-> CopiesIn(t, timers)])
    IN
        \A sid \in DOMAIN heap :
            PendingCount("deadline", sid) <= 1 /\ PendingCount("interval", sid) <= 1

\* C31: for a match id, game-started is emitted at most once and at most one
\* session is ever created for it (heap holds every session object ever created).
C31_StartedOnce ==
    [][/\ Len(heap') <= 1
       /\ Emitted("game-started")' # {} => heap = <<>>]_vars

\* C32: when a submitAnswer call is suspended at its persistence write while the
\* last question ends and endGame runs, then once every operation in flight has
\* finished the database holds no answer record and no match record of the match.
C32_CleanupComplete ==
    (heap # <<>> /\ ~HasSession /\ calls = EmptyBag) =>
        (answerRows = 0 /\ GameId \notin DOMAIN games)

\* the INSERT of a suspended submitAnswer was executed after endGame had deleted
\* the match, and nothing is in flight any more
C32_Witness ==
    /\ heap # <<>> /\ ~HasSession /\ calls = EmptyBag
    /\ \E i \in DOMAIN out : out[i].type = "error" /\ out[i].who = "ANSWER_SUBMIT_ERROR"
    /\ answerRows = 0 /\ GameId \notin DOMAIN games

\* C33: for a match, the completed status is persisted at most once and
\* game-completed is emitted at most once (completions counts both).
C33_CompletedOnce ==
    completions.persisted <= 1 /\ completions.emitted <= 1

\* the last question was ended and the match persisted as completed; a
\* submitAnswer that was in flight has now finished and called endQuestion again
C33_Witness ==
    /\ HasSession /\ Session.game.currentQuestionIndex >= QUESTIONS_PER_GAME
    /\ completions.persisted = 1
    /\ Emitted("opponent-answered") # {} /\ Emitted("question-timeout") = {}
    /\ Cardinality(Session.playersAnswered) = 2

\* C34: game-state-sync carries as currentQuestion only a question whose
\* question-started has been emitted: between the end of a question and the
\* start of the next (~live) it carries no question (q = -1).
C34_SyncShowsStartedQuestion ==
    \A e \in Emitted("game-state-sync") : e.q # -1 => live

\* C35: right after startQuestion ran for index i (its question-started is among
\* the events of the step) the answered-set and the answers map are empty and
\* the start time is the current time, and every participant has exactly one
\* answer accepted for index i: none was accepted before, one is accepted now,
\* and a second one is then refused.
C35_StartQuestionResets ==
    LET BookkeepingReset ==
            /\ HasSession
            /\ Session.playersAnswered = {}
            /\ Session.answers = [p \in Submitters |-> NoAnswer]
            /\ Session.currentQuestionStartTime = now
    IN
        Emitted("question-started") # {} =>
            /\ BookkeepingReset
            /\ \A p \in Submitters :
                  /\ acceptedNow[p] = 0
                  /\ submitAnswer(St, p, 1).ret = "none"
                  /\ submitAnswer(submitAnswer(St, p, 1), p, 1).ret = "false"

\* C36: every countdown-tick carries a timeRemaining within 0 .. the time limit,
\* and the step that emits a tick with timeRemaining 0 stops the ticking: no
\* countdown interval is running after it.
C36_TickInRangeAndStopsAtZero ==
    [][\A e \in Emitted("countdown-tick")' :
          /\ e.t \in 0 .. QUESTION_TIME_LIMIT_SECONDS * 1000
          /\ e.t = 0 => \A t \in BagToSet(timers') : t.kind # "interval"]_vars

\* C37: at difficulty factor 1 the three scoring implementations agree on every
\* latency, the time limit included, and all return 0 from the limit on (pout
\* holds what calculatePoints returned for the two latencies of pin).
C37_ScoringsAgree ==
    pout # NotScored =>
        \A i \in {1, 2} :
            /\ calculateQuestionPoints(pin[i], "easy") = pout[i]
            /\ Question_calculatePoints(pin[i], "easy") = pout[i]
            /\ pin[i] >= QUESTION_TIME_LIMIT => pout[i] = 0

\* C38: isAllowed is a sliding window per socket and event.  In every isAllowed
\* step: the calls of one socket and event that returned true within any
\* interval shorter than WindowMs are at most MaxRequests; a call that returns
\* false adds no timestamp; the timestamps of every other socket and event stay
\* as they are, and the verdict is the one the call gets when the limiter holds
\* nothing of the others.
C38_SlidingWindowPerKey ==
    [][verdicts'.calls > verdicts.calls =>
         LET Timestamps(limits, s, e) ==
                 IF s \in DOMAIN limits /\ e \in DOMAIN limits[s]
                 THEN limits[s][e] ELSE <<>>
             socketId == verdicts'.last.socketId
             event == verdicts'.last.event
             before == Timestamps(rateLimits, socketId, event)
             after == Timestamps(rateLimits', socketId, event)
             Only == [s \in {socketId} |-> [e \in {event} |-> before]]
         IN  /\ \A k \in SocketIds \X EventNames :
                   LET A == verdicts'.allowedAt[k]
                   IN  \A i, j \in DOMAIN A :
                           (i <= j /\ A[j] - A[i] < WindowMs) => j - i + 1 <= MaxRequests
             /\ ~verdicts'.last.ret =>
                   /\ Len(after) <= Len(before)
                   /\ \A i \in DOMAIN after : \E j \in DOMAIN before : after[i] = before[j]
             /\ \A s \in SocketIds, e \in EventNames :
                   <<s, e>> # <<socketId, event>> =>
                       Timestamps(rateLimits', s, e) = Timestamps(rateLimits, s, e)
             /\ verdicts'.last.ret = isAllowed(Only, socketId, event, now).ret]_vars

\* a socket was allowed MaxRequests calls of an event, was allowed again when the
\* window had moved on, and has now been refused
C38_Witness ==
    LET Timestamps(s, e) ==
            IF s \in DOMAIN rateLimits /\ e \in DOMAIN rateLimits[s]
            THEN rateLimits[s][e] ELSE <<>>
    IN  /\ verdicts.calls > 0 /\ ~verdicts.last.ret
        /\ Len(verdicts.allowedAt[<<verdicts.last.socketId, verdicts.last.event>>]) > MaxRequests
        /\ \E s \in SocketIds, e \in EventNames :
              /\ <<s, e>> # <<verdicts.last.socketId, verdicts.last.event>>
              /\ Timestamps(s, e) # <<>>

\* apps/web stores/game-store.ts: the scores of the client store, as created
InitialStore == [playerScore |-> 0, opponentScore |-> 0]

\* useGameStore.updateScores(player, opponent)
updateScores(store, player, opponent) ==
    [store EXCEPT !.playerScore = player, !.opponentScore = opponent]

\* useSocket: the listeners of question-timeout (data.scores) and of
\* game-completed (data.finalScores), the same in every client
onScores(store, e) == updateScores(store, e.s1, e.s2)

\* C39: after a question-timeout or game-completed event the store of each
\* participant's client holds that participant's server score as playerScore
\* and the other participant's as opponentScore.
C39_ClientScoresAreOwn ==
    LET Opponent(p) == IF p = "p1" THEN "p2" ELSE "p1"
        ServerScore(p) ==
            LET g == heap[Len(heap)].game
            IN  IF p = g.player1Id THEN g.player1Score ELSE g.player2Score
    IN  \A e \in Emitted("question-timeout") \cup Emitted("game-completed") :
            \A p \in Submitters :
                LET store == onScores(InitialStore, e)
                IN  /\ store.playerScore = ServerScore(p)
                    /\ store.opponentScore = ServerScore(Opponent(p))

\* C40: commit publishes the collected events only after the event store save
\* and the transaction commit have both succeeded; a failure of saving,
\* committing or publishing is rethrown; and once commit has returned or
\* thrown, or rollback has finished, no collected events remain pending.
C40_CommitPublishesLastAndClears ==
    LET PublishedAfterSaveAndCommit ==
            /\ uow.published # NoEvents =>
                   /\ uow.saved = DOMAIN uow.published
                   /\ uow.failed \notin {"eventStore.saveEvents", "transaction.commit"}
            /\ uow.pc = "publishBatch" => uow.transaction = "committed"
        FailureRethrown ==
            uow.result.op = "commit" /\ uow.failed # "none" =>
                uow.result.outcome = uow.failed
        NothingPending ==
            uow.pc = "idle" /\ uow.result.op \in {"commit", "rollback"} =>
                uow.eventCollections = NoEvents
    IN  /\ PublishedAfterSaveAndCommit
        /\ FailureRethrown
        /\ NothingPending

====
